---- MODULE Spec2Model ----
(***************************************************************************)
(* Model of the Fogify.ai browser client (class FogifyEditor, API version, *)
(* src/backend/README.md lines 117-623): the upload -> analyze ->          *)
(* progress-channel lifecycle of one editor instance.                      *)
(*                                                                         *)
(* The editor is single threaded: every handler below runs to its next     *)
(* await (or to its end) atomically.  The code after an await is a         *)
(* separate action that fires when the awaited request completes.          *)
(***************************************************************************)
EXTENDS Integers, Sequences, FiniteSets, TLC

(***************************************************************************)
(* Bounds of the model.                                                    *)
(***************************************************************************)
\* accepted file selections (File objects handed to uploadFileToServer)
MaxFiles == 2
\* WebSocket objects created by connectWebSocket
MaxSockets == 2
\* analysis-result blocks appended to videoInfo before showVideoInfo clears it
MaxResults == 1
\* the durations formatted run over MaxSeconds + 1 consecutive seconds from each
\* of DurationBases
MaxSeconds == 125

(***************************************************************************)
(* Program constants (constructor).                                        *)
(***************************************************************************)
supportedFormats == { <<"m","p","4">>, <<"m","o","v">>, <<"a","v","i">>,
                      <<"m","k","v">>, <<"w","e","b","m">> }

maxFileSize == 500 * 1024 * 1024

(***************************************************************************)
(* Values.  0 stands for null / '' in every identifier-valued field.       *)
(***************************************************************************)
FileIds == 1..MaxFiles
TaskIds == 1..MaxFiles
UrlIds  == 1..MaxFiles
SockIds == 1..MaxSockets

\* a File as validateFile reads it: name (characters), size (bytes), type
\* (the MIME type, split into its prefix up to the slash and the rest)
MkFile(name, size, type) ==
    [present |-> TRUE, name |-> name, size |-> size, type |-> type]

\* e.target.files[0] of an empty FileList
NoFile == [present |-> FALSE, name |-> <<>>, size |-> 0, type |-> <<>>]

Mp4Type == <<"video/", "mp4">>
PdfType == <<"application/", "pdf">>

\* the files the user may hand to handleFileSelect
Candidates ==
    << NoFile,
       MkFile(<<"a",".","m","p","4">>, 1024, Mp4Type),
       MkFile(<<"b",".","M","P","4">>, maxFileSize, Mp4Type),
       MkFile(<<"c",".","m","p","4">>, maxFileSize + 1, Mp4Type),
       MkFile(<<"d",".","t","x","t">>, 1024, Mp4Type),
       MkFile(<<"e",".","m","p","4">>, 1024, PdfType),
       MkFile(<<"f",".","t","x","t">>, maxFileSize + 1, PdfType),
       MkFile(<<"M","O","V">>, 1024, Mp4Type) >>

CandidateIds == 1..Len(Candidates)

\* the detail of a non-2xx answer; "" is an absent detail
Details == {"", "server detail"}

\* the message of an error event
ErrorMessages == {"analysis error"}

\* result objects of a complete event
Summaries == { [detection_count |-> 0, total_frames |-> 10],
               [detection_count |-> 3, total_frames |-> 3000] }

\* progress events a channel may carry: the number in tenths of a percent, and
\* the message ('' is falsy)
ProgressEvents == { [progress |-> -46,  message |-> ""],
                    [progress |-> 1425, message |-> ""],
                    [progress |-> 495,  message |-> "analyzing"] }

\* Math.random() * 15 of one tick of simulateFileProcessing, in tenths: a
\* number from 0 up to, not including, 15
Increments == {0, 125, 149}

\* metadata.duration of an upload result, in seconds: runs of consecutive
\* values from 0:00, across the first and the second hour, and across a day
DurationBases == {0, 3540, 7140, 86340}
Durations == {b + s : b \in DurationBases, s \in 0..MaxSeconds}

\* metadata.file_size of an upload result, in bytes
FileSizes == {0, 1, 1023, 1024, 1536, 1048575, 10485760, 15938355, maxFileSize}

\* the metadata of the upload result in the README's example
SampleMetadata == [duration |-> 125, file_size |-> 10485760]

\* the metadata objects an upload result may carry
Metadatas ==
    {[duration |-> d, file_size |-> SampleMetadata.file_size] : d \in Durations}
        \cup {[duration |-> SampleMetadata.duration, file_size |-> b] : b \in FileSizes}

(***************************************************************************)
(* String helpers of validateFile.                                         *)
(***************************************************************************)
toLowerCase(c) ==
    CASE c = "M" -> "m"
      [] c = "P" -> "p"
      [] c = "O" -> "o"
      [] c = "V" -> "v"
      [] c = "T" -> "t"
      [] c = "X" -> "x"
      [] OTHER -> c

\* name.split('.').pop(): the characters after the last dot, the whole name
\* when it holds no dot
LastPart(name) ==
    LET dots == { i \in 1..Len(name) : name[i] = "." }
        from == IF dots = {} THEN 1
                ELSE (CHOOSE i \in dots : \A j \in dots : j <= i) + 1
    IN  SubSeq(name, from, Len(name))

fileExtension(name) ==
    LET p == LastPart(name)
    IN  [i \in 1..Len(p) |-> toLowerCase(p[i])]

\* file.type.startsWith('video/')
startsWithVideo(type) == Len(type) >= 1 /\ type[1] = "video/"

\* validateFile with the size rule left out
ValidateFileNoSize(f) ==
    IF ~f.present THEN "NoFile"
    ELSE IF fileExtension(f.name) \notin supportedFormats THEN "BadFormat"
    ELSE IF ~startsWithVideo(f.type) THEN "NotVideo"
    ELSE "ok"

\* validateFile: "ok" for true, else the error it shows before returning false
validateFile(f) ==
    IF ~f.present THEN "NoFile"
    ELSE IF f.size > maxFileSize THEN "TooLarge"
    ELSE IF fileExtension(f.name) \notin supportedFormats THEN "BadFormat"
    ELSE IF ~startsWithVideo(f.type) THEN "NotVideo"
    ELSE "ok"

(***************************************************************************)
(* formatDuration and formatFileSize.  A string is the sequence of its     *)
(* characters; a unit name of `sizes` is one element.  The arguments are   *)
(* non-negative integers, so isNaN(seconds) is false.                      *)
(***************************************************************************)
DigitChars == <<"0", "1", "2", "3", "4", "5", "6", "7", "8", "9">>

\* Number.prototype.toString of a non-negative integer
RECURSIVE toString(_)
toString(n) ==
    IF n < 10 THEN <<DigitChars[n + 1]>>
    ELSE Append(toString(n \div 10), DigitChars[(n % 10) + 1])

\* padStart that adds nothing
PadStartNone(str, targetLength, fill) == str

\* String.prototype.padStart with a one-character fill
RECURSIVE padStart(_, _, _)
padStart(str, targetLength, fill) ==
    IF Len(str) >= targetLength THEN str
    ELSE padStart(<<fill>> \o str, targetLength, fill)

formatDuration(seconds) ==
    LET hours   == seconds \div 3600
        minutes == (seconds % 3600) \div 60
        secs    == seconds % 60
    IN  IF hours > 0
        THEN toString(hours) \o <<":">> \o padStart(toString(minutes), 2, "0")
                 \o <<":">> \o padStart(toString(secs), 2, "0")
        ELSE toString(minutes) \o <<":">> \o padStart(toString(secs), 2, "0")

sizes == <<"Bytes", "KB", "MB", "GB">>

RECURSIVE Pow(_, _)
Pow(k, i) == IF i = 0 THEN 1 ELSE k * Pow(k, i - 1)

\* Math.floor(Math.log(bytes) / Math.log(k)) for bytes >= 1: the largest i
\* with k^i <= bytes
RECURSIVE FloorLog(_, _)
FloorLog(bytes, k) == IF bytes < k THEN 0 ELSE 1 + FloorLog(bytes \div k, k)

\* (bytes / unit).toFixed(2), as a number of hundredths: the quotient rounded
\* to two decimals, half up
toFixed2(bytes, unit) ==
    (bytes \div unit) * 100 + ((bytes % unit) * 200 + unit) \div (2 * unit)

\* parseFloat of a toFixed(2) string, converted back to a string by `+`:
\* trailing zeros of the fraction, and an empty fraction's point, are gone
parseFloat(hundredths) ==
    LET whole == toString(hundredths \div 100)
        frac  == hundredths % 100
    IN  IF frac = 0 THEN whole
        ELSE IF frac % 10 = 0 THEN whole \o <<".", DigitChars[(frac \div 10) + 1]>>
        ELSE whole \o <<".", DigitChars[(frac \div 10) + 1], DigitChars[(frac % 10) + 1]>>

formatFileSize(bytes) ==
    IF bytes = 0 THEN <<"0", " ", "Bytes">>
    ELSE LET k == 1024
             i == FloorLog(bytes, k)
         IN  parseFloat(toFixed2(bytes, Pow(k, i))) \o <<" ", sizes[i + 1]>>

\* what showVideoInfo(uploadResult) puts into videoInfo: the upload result it
\* renders (its task_id and metadata), and the duration and file size as the
\* page shows them
NoInfo == [task |-> 0, metadata |-> [duration |-> 0, file_size |-> 0],
           duration |-> <<>>, fileSize |-> <<>>]

showVideoInfo(task_id, metadata) ==
    [task     |-> task_id,
     metadata |-> metadata,
     duration |-> formatDuration(metadata.duration),
     fileSize |-> formatFileSize(metadata.file_size)]

(***************************************************************************)
(* updateProgress.                                                         *)
(***************************************************************************)
\* Math.round of a number given in tenths: half rounds up
MathRound(tenths) == (tenths + 5) \div 10

\* progressText.textContent = message || `${rounded}%`
ProgressLabel(rounded, message) ==
    IF message = "" THEN [msg |-> "%", pct |-> rounded]
    ELSE [msg |-> message, pct |-> 0]

(***************************************************************************)
(* State.                                                                  *)
(***************************************************************************)
VARIABLES
    \* fields of the editor
    currentFile,        \* this.currentFile: a FileId, 0 for null
    currentTaskId,      \* this.currentTaskId: a TaskId, 0 for null
    websocket,          \* this.websocket: a SockId, 0 for null
    \* DOM
    videoSrc,           \* videoPlayer.src: a UrlId, 0 for ''
    errorShown,         \* errorMessage.style.display = 'block'
    errorText,          \* errorMessage.textContent
    progressShown,      \* uploadProgress.style.display = 'block'
    progressWidth,      \* progressFill.style.width, the number before the %
    progressText,       \* progressText.textContent
    uploadSectionShown, \* uploadSection.style.display = 'block'
    videoSectionShown,  \* videoSection.style.display = 'block'
    videoInfo,          \* what showVideoInfo rendered last, NoInfo: nothing yet
    analysisResults,    \* the analysis-result blocks appended to videoInfo
    \* the environment
    uploads,            \* POST /upload requests awaiting their response, by file
    analyzes,           \* POST /analyze requests awaiting their response, by socket
    timers,             \* pending setTimeout callbacks of uploadFileToServer, by file
    sockOpen,           \* SockId -> the socket is not closed
    sockTask,           \* SockId -> the task of its URL, 0: not created
    urlFile,            \* UrlId -> the file it was created for, 0: not created
    revoked,            \* UrlId -> number of revokeObjectURL calls on it
    \* counters
    nSelected,          \* files accepted by handleFileSelect so far
    nPosts,             \* POST /upload requests issued so far
    nTasks,             \* task ids the server has assigned so far
    \* history
    terminated,         \* tasks for which a complete or error event was handled
    \* the simulated-processing variant (src/script.js)
    simProgress,        \* FileId -> `progress` of its simulateFileProcessing, in tenths
    intervals,          \* files whose setInterval timer is live
    processed           \* FileId -> number of onFileProcessed(file) calls

fields == <<currentFile, currentTaskId, websocket>>
dom    == <<videoSrc, errorShown, errorText, progressShown, progressWidth,
            progressText, uploadSectionShown, videoSectionShown, videoInfo,
            analysisResults>>
env    == <<uploads, analyzes, timers, sockOpen, sockTask, urlFile, revoked>>
hist   == <<nSelected, nPosts, nTasks, terminated>>
sim    == <<simProgress, intervals, processed>>
vars   == <<fields, dom, env, hist, sim>>

\* the constructor; the page starts with the upload section shown, and the
\* progress bar, the error box and the video section hidden
Init ==
    /\ currentFile = 0
    /\ currentTaskId = 0
    /\ websocket = 0
    /\ videoSrc = 0
    /\ errorShown = FALSE
    /\ errorText = ""
    /\ progressShown = FALSE
    /\ progressWidth = 0
    /\ progressText = ProgressLabel(0, "")
    /\ uploadSectionShown = TRUE
    /\ videoSectionShown = FALSE
    /\ videoInfo = NoInfo
    /\ analysisResults = <<>>
    /\ uploads = {}
    /\ analyzes = {}
    /\ timers = {}
    /\ sockOpen = [s \in SockIds |-> FALSE]
    /\ sockTask = [s \in SockIds |-> 0]
    /\ urlFile = [u \in UrlIds |-> 0]
    /\ revoked = [u \in UrlIds |-> 0]
    /\ nSelected = 0
    /\ nPosts = 0
    /\ nTasks = 0
    /\ terminated = {}
    /\ simProgress = [f \in FileIds |-> 0]
    /\ intervals = {}
    /\ processed = [f \in FileIds |-> 0]

(***************************************************************************)
(* DOM helpers.                                                            *)
(***************************************************************************)
\* showError(message)
showError(message) ==
    /\ errorText' = message
    /\ errorShown' = TRUE

\* hideError()
hideError ==
    /\ errorShown' = FALSE
    /\ errorText' = errorText

\* updateProgress(percent, message): percent in tenths
updateProgress(tenths, message) ==
    /\ progressWidth' = MathRound(tenths)
    /\ progressText' = ProgressLabel(MathRound(tenths), message)

\* the one fetch of uploadFileToServer issues two requests
fetchUploadTwice(n) == n + 2

\* fetch(`${apiBaseUrl}/upload`, {method: 'POST', ...}): one request more
fetchUpload(n) == n + 1

\* the message of the Error, were errorData.detail never looked at
ErrorMessageGeneric(detail, generic) == generic

\* the message of the Error thrown for a non-2xx answer
ErrorMessage(detail, generic) == IF detail = "" THEN generic ELSE detail

\* the task id is stored only when none is held
storeTaskIdIfNone(held, task_id) == IF held = 0 THEN task_id ELSE held

\* this.currentTaskId = result.task_id
storeTaskId(held, task_id) == task_id

\* the unused identifier of smallest number
NextUrl  == CHOOSE u \in UrlIds : urlFile[u] = 0 /\ \A v \in UrlIds : urlFile[v] = 0 => u <= v
NextSock == CHOOSE s \in SockIds : sockTask[s] = 0 /\ \A t \in SockIds : sockTask[t] = 0 => s <= t

(***************************************************************************)
(* handleFileSelect(file), up to the await inside uploadFileToServer.      *)
(***************************************************************************)
\* a refused selection that also forgets the file selected before
SelectRejectedClearing(c) ==
    /\ validateFile(Candidates[c]) # "ok"
    /\ showError(validateFile(Candidates[c]))
    /\ currentFile' = 0
    /\ UNCHANGED <<sim, currentTaskId, websocket, videoSrc, progressShown,
                   progressWidth, progressText, uploadSectionShown,
                   videoSectionShown, videoInfo, analysisResults, env,
                   nSelected, nPosts, nTasks, terminated>>

\* validateFile(file) is false: the error is shown and nothing else happens
SelectRejected(c) ==
    /\ validateFile(Candidates[c]) # "ok"
    /\ showError(validateFile(Candidates[c]))
    /\ UNCHANGED <<sim, fields, videoSrc, progressShown, progressWidth, progressText,
                   uploadSectionShown, videoSectionShown, videoInfo,
                   analysisResults, env, nSelected, nPosts, nTasks, terminated>>

\* validateFile(file) is true: hideError, currentFile = file, and the
\* synchronous part of uploadFileToServer(file): showProgress,
\* updateProgress(0, ...), fetch
SelectAccepted(c) ==
    /\ validateFile(Candidates[c]) = "ok"
    /\ nSelected < MaxFiles
    /\ hideError
    /\ nSelected' = nSelected + 1
    /\ currentFile' = nSelected + 1
    /\ progressShown' = TRUE
    /\ updateProgress(0, "uploading")
    /\ uploads' = uploads \cup {nSelected + 1}
    /\ nPosts' = fetchUpload(nPosts)
    /\ UNCHANGED <<sim, currentTaskId, websocket, videoSrc, uploadSectionShown,
                   videoSectionShown, videoInfo, analysisResults, analyzes,
                   timers, sockOpen, sockTask, urlFile, revoked, nTasks,
                   terminated>>

handleFileSelect(c) == SelectRejected(c) \/ SelectAccepted(c)

(***************************************************************************)
(* uploadFileToServer(file), after its awaits.  Nothing is assigned        *)
(* between `await fetch` and `await response.json()`, so the two awaits    *)
(* are one step.                                                           *)
(***************************************************************************)
\* 2xx with body {task_id, ...}, task_id being the fresh id the server assigned:
\* currentTaskId = result.task_id, showVideoInfo(result),
\* updateProgress(100, ...), setTimeout(..., 1000)
UploadSucceededWith(f, task_id, metadata) ==
    /\ f \in uploads
    /\ task_id = nTasks + 1
    /\ uploads' = uploads \ {f}
    /\ nTasks' = task_id
    /\ currentTaskId' = storeTaskId(currentTaskId, task_id)
    /\ videoInfo' = showVideoInfo(task_id, metadata)
    /\ analysisResults' = <<>>
    /\ updateProgress(1000, "upload done")
    /\ timers' = timers \cup {f}
    /\ UNCHANGED <<sim, currentFile, websocket, videoSrc, errorShown, errorText,
                   progressShown, uploadSectionShown, videoSectionShown,
                   analyzes, sockOpen, sockTask, urlFile, revoked, nSelected,
                   nPosts, terminated>>

\* the same, the result carrying the metadata of the README's example
UploadSucceeded(f, task_id) == UploadSucceededWith(f, task_id, SampleMetadata)

\* non-2xx with body {detail}: throw new Error(detail || generic), caught:
\* showError(error.message), hideProgress()
UploadRejected(f, detail) ==
    /\ f \in uploads
    /\ uploads' = uploads \ {f}
    /\ showError(ErrorMessage(detail, "upload failed"))
    /\ progressShown' = FALSE
    /\ UNCHANGED <<sim, fields, videoSrc, progressWidth, progressText,
                   uploadSectionShown, videoSectionShown, videoInfo,
                   analysisResults, analyzes, timers, sockOpen, sockTask,
                   urlFile, revoked, nSelected, nPosts, nTasks, terminated>>

\* the catch without its hideProgress()
UploadFailedKeepingProgress(f) ==
    /\ f \in uploads
    /\ uploads' = uploads \ {f}
    /\ showError("Failed to fetch")
    /\ UNCHANGED <<sim, fields, videoSrc, progressShown, progressWidth, progressText,
                   uploadSectionShown, videoSectionShown, videoInfo,
                   analysisResults, analyzes, timers, sockOpen, sockTask,
                   urlFile, revoked, nSelected, nPosts, nTasks, terminated>>

\* fetch rejects (no connection): caught the same way, with fetch's message
UploadFailed(f) ==
    /\ f \in uploads
    /\ uploads' = uploads \ {f}
    /\ showError("Failed to fetch")
    /\ progressShown' = FALSE
    /\ UNCHANGED <<sim, fields, videoSrc, progressWidth, progressText,
                   uploadSectionShown, videoSectionShown, videoInfo,
                   analysisResults, analyzes, timers, sockOpen, sockTask,
                   urlFile, revoked, nSelected, nPosts, nTasks, terminated>>

\* the setTimeout callback: hideProgress(), showVideoPlayer(file, metadata)
UploadTimer(f) ==
    /\ f \in timers
    /\ timers' = timers \ {f}
    /\ progressShown' = FALSE
    /\ urlFile' = [urlFile EXCEPT ![NextUrl] = f]
    /\ videoSrc' = NextUrl
    /\ uploadSectionShown' = FALSE
    /\ videoSectionShown' = TRUE
    /\ UNCHANGED <<sim, fields, errorShown, errorText, progressWidth, progressText,
                   videoInfo, analysisResults, uploads, analyzes, sockOpen,
                   sockTask, revoked, nSelected, nPosts, nTasks, terminated>>

(***************************************************************************)
(* startAnalysis(), up to its await.                                       *)
(***************************************************************************)
\* !this.currentTaskId: the error is shown and the function returns
StartAnalysisNoTask ==
    /\ currentTaskId = 0
    /\ showError("NoTask")
    /\ UNCHANGED <<sim, fields, videoSrc, progressShown, progressWidth, progressText,
                   uploadSectionShown, videoSectionShown, videoInfo,
                   analysisResults, env, nSelected, nPosts, nTasks, terminated>>

\* startAnalysis that goes on to connect without looking at currentTaskId
ConnectWithoutTask ==
    /\ \E s \in SockIds : sockTask[s] = 0
    /\ websocket' = NextSock
    /\ sockTask' = [sockTask EXCEPT ![NextSock] = currentTaskId]
    /\ sockOpen' = [sockOpen EXCEPT ![NextSock] = TRUE]
    /\ analyzes' = analyzes \cup {NextSock}
    /\ UNCHANGED <<sim, currentFile, currentTaskId, dom, uploads, timers, urlFile,
                   revoked, nSelected, nPosts, nTasks, terminated>>

\* connectWebSocket(): this.websocket = new WebSocket(.../ws/${currentTaskId});
\* then fetch(.../analyze/${currentTaskId}, {method: 'POST'})
StartAnalysisWithTask ==
    /\ currentTaskId # 0
    /\ \E s \in SockIds : sockTask[s] = 0
    /\ websocket' = NextSock
    /\ sockTask' = [sockTask EXCEPT ![NextSock] = currentTaskId]
    /\ sockOpen' = [sockOpen EXCEPT ![NextSock] = TRUE]
    /\ analyzes' = analyzes \cup {NextSock}
    /\ UNCHANGED <<sim, currentFile, currentTaskId, dom, uploads, timers, urlFile,
                   revoked, nSelected, nPosts, nTasks, terminated>>

startAnalysis == StartAnalysisNoTask \/ StartAnalysisWithTask

(***************************************************************************)
(* startAnalysis(), after its awaits; the request is named by the socket   *)
(* that the same call opened.                                              *)
(***************************************************************************)
\* 2xx: showProgress(), updateProgress(0, ...)
AnalyzeStarted(s) ==
    /\ s \in analyzes
    /\ analyzes' = analyzes \ {s}
    /\ progressShown' = TRUE
    /\ updateProgress(0, "analysis started")
    /\ UNCHANGED <<sim, fields, videoSrc, errorShown, errorText, uploadSectionShown,
                   videoSectionShown, videoInfo, analysisResults, uploads,
                   timers, sockOpen, sockTask, urlFile, revoked, nSelected,
                   nPosts, nTasks, terminated>>

\* the non-2xx answer caught and logged, nothing shown
AnalyzeRejectedSilently(s, detail) ==
    /\ s \in analyzes
    /\ analyzes' = analyzes \ {s}
    /\ UNCHANGED <<sim, fields, dom, uploads, timers, sockOpen, sockTask, urlFile,
                   revoked, nSelected, nPosts, nTasks, terminated>>

\* non-2xx with body {detail}: throw new Error(detail || generic), caught:
\* showError(error.message)
AnalyzeRejected(s, detail) ==
    /\ s \in analyzes
    /\ analyzes' = analyzes \ {s}
    /\ showError(ErrorMessage(detail, "analysis start failed"))
    /\ UNCHANGED <<sim, fields, videoSrc, progressShown, progressWidth, progressText,
                   uploadSectionShown, videoSectionShown, videoInfo,
                   analysisResults, uploads, timers, sockOpen, sockTask,
                   urlFile, revoked, nSelected, nPosts, nTasks, terminated>>

\* fetch rejects: caught the same way, with fetch's message
AnalyzeFailed(s) ==
    /\ s \in analyzes
    /\ analyzes' = analyzes \ {s}
    /\ showError("Failed to fetch")
    /\ UNCHANGED <<sim, fields, videoSrc, progressShown, progressWidth, progressText,
                   uploadSectionShown, videoSectionShown, videoInfo,
                   analysisResults, uploads, timers, sockOpen, sockTask,
                   urlFile, revoked, nSelected, nPosts, nTasks, terminated>>

(***************************************************************************)
(* The handlers connectWebSocket installs on a socket.  A closed socket    *)
(* delivers no event.                                                      *)
(***************************************************************************)
\* this.websocket.close(), when this.websocket is set
CloseHeld(open, held) ==
    IF held # 0 THEN [open EXCEPT ![held] = FALSE] ELSE open

\* a progress event that also brings the progress bar back (showProgress)
OnProgressShowing(s, tenths, message) ==
    /\ sockOpen[s]
    /\ progressShown' = TRUE
    /\ updateProgress(tenths, message)
    /\ UNCHANGED <<sim, fields, videoSrc, errorShown, errorText,
                   uploadSectionShown, videoSectionShown, videoInfo,
                   analysisResults, env, nSelected, nPosts, nTasks, terminated>>

\* onmessage, case 'progress': updateProgress(data.progress, data.message)
OnProgress(s, tenths, message) ==
    /\ sockOpen[s]
    /\ updateProgress(tenths, message)
    /\ UNCHANGED <<sim, fields, videoSrc, errorShown, errorText, progressShown,
                   uploadSectionShown, videoSectionShown, videoInfo,
                   analysisResults, env, nSelected, nPosts, nTasks, terminated>>

\* onmessage, case 'complete': onAnalysisComplete(data.result): hideProgress(),
\* videoInfo.appendChild(detectionInfo), this.websocket.close()
OnComplete(s, result) ==
    /\ sockOpen[s]
    /\ Len(analysisResults) < MaxResults
    /\ progressShown' = FALSE
    /\ analysisResults' = Append(analysisResults, result)
    /\ sockOpen' = CloseHeld(sockOpen, websocket)
    /\ terminated' = terminated \cup {sockTask[s]}
    /\ UNCHANGED <<sim, fields, videoSrc, errorShown, errorText, progressWidth,
                   progressText, uploadSectionShown, videoSectionShown,
                   videoInfo, uploads, analyzes, timers, sockTask, urlFile,
                   revoked, nSelected, nPosts, nTasks>>

\* onmessage, case 'error': showError(data.message), hideProgress()
OnError(s, message) ==
    /\ sockOpen[s]
    /\ showError(message)
    /\ progressShown' = FALSE
    /\ terminated' = terminated \cup {sockTask[s]}
    /\ UNCHANGED <<sim, fields, videoSrc, progressWidth, progressText,
                   uploadSectionShown, videoSectionShown, videoInfo,
                   analysisResults, env, nSelected, nPosts, nTasks>>

\* onerror: showError(...); the browser closes a socket whose connection failed
OnTransportError(s) ==
    /\ sockOpen[s]
    /\ showError("channel problem")
    /\ sockOpen' = [sockOpen EXCEPT ![s] = FALSE]
    /\ UNCHANGED <<sim, fields, videoSrc, progressShown, progressWidth, progressText,
                   uploadSectionShown, videoSectionShown, videoInfo,
                   analysisResults, uploads, analyzes, timers, sockTask,
                   urlFile, revoked, nSelected, nPosts, nTasks, terminated>>

\* onclose, the server having closed the socket: only logs
OnClose(s) ==
    /\ sockOpen[s]
    /\ sockOpen' = [sockOpen EXCEPT ![s] = FALSE]
    /\ UNCHANGED <<sim, fields, dom, uploads, analyzes, timers, sockTask, urlFile,
                   revoked, nSelected, nPosts, nTasks, terminated>>

(***************************************************************************)
(* resetUpload().                                                          *)
(***************************************************************************)
\* URL.revokeObjectURL(this.videoPlayer.src), when videoPlayer.src is set
RevokeHeld(counts, src) ==
    IF src # 0 THEN [counts EXCEPT ![src] = @ + 1] ELSE counts

\* resetUpload that leaves videoPlayer.src as it is
ResetKeepingSrc ==
    /\ revoked' = RevokeHeld(revoked, videoSrc)
    /\ videoSrc' = videoSrc
    /\ sockOpen' = CloseHeld(sockOpen, websocket)
    /\ websocket' = 0
    /\ currentFile' = 0
    /\ currentTaskId' = 0
    /\ hideError
    /\ progressShown' = FALSE
    /\ uploadSectionShown' = TRUE
    /\ videoSectionShown' = FALSE
    /\ UNCHANGED <<sim, progressWidth, progressText, videoInfo, analysisResults,
                   uploads, analyzes, timers, sockTask, urlFile, nSelected,
                   nPosts, nTasks, terminated>>

\* resetUpload that closes the socket but keeps it in this.websocket
ResetKeepingSocket ==
    /\ revoked' = RevokeHeld(revoked, videoSrc)
    /\ videoSrc' = 0
    /\ sockOpen' = CloseHeld(sockOpen, websocket)
    /\ websocket' = websocket
    /\ currentFile' = 0
    /\ currentTaskId' = 0
    /\ hideError
    /\ progressShown' = FALSE
    /\ uploadSectionShown' = TRUE
    /\ videoSectionShown' = FALSE
    /\ UNCHANGED <<sim, progressWidth, progressText, videoInfo, analysisResults,
                   uploads, analyzes, timers, sockTask, urlFile, nSelected,
                   nPosts, nTasks, terminated>>

resetUpload ==
    /\ revoked' = RevokeHeld(revoked, videoSrc)
    /\ videoSrc' = 0
    /\ sockOpen' = CloseHeld(sockOpen, websocket)
    /\ websocket' = 0
    /\ currentFile' = 0
    /\ currentTaskId' = 0
    /\ hideError
    /\ progressShown' = FALSE
    /\ uploadSectionShown' = TRUE
    /\ videoSectionShown' = FALSE
    /\ UNCHANGED <<sim, progressWidth, progressText, videoInfo, analysisResults,
                   uploads, analyzes, timers, sockTask, urlFile, nSelected,
                   nPosts, nTasks, terminated>>

(***************************************************************************)
(* The simulated-processing variant, src/script.js: handleFileSelect runs  *)
(* processFile instead of an upload, and a setInterval timer advances a     *)
(* progress of its own every 200 ms.  Its updateProgress(percent) always    *)
(* writes the rounded percent as the label.                                *)
(***************************************************************************)
\* clearInterval that clears nothing
KeepInterval(live, f) == live

\* clearInterval(interval)
clearInterval(live, f) == live \ {f}

\* handleFileSelect(file) of a valid file: hideError, currentFile = file,
\* processFile: showProgress (updateProgress(0)), simulateFileProcessing:
\* progress = 0, setInterval
processFile(c) ==
    /\ validateFile(Candidates[c]) = "ok"
    /\ nSelected < MaxFiles
    /\ nSelected' = nSelected + 1
    /\ currentFile' = nSelected + 1
    /\ hideError
    /\ progressShown' = TRUE
    /\ updateProgress(0, "")
    /\ simProgress' = [simProgress EXCEPT ![nSelected + 1] = 0]
    /\ intervals' = intervals \cup {nSelected + 1}
    /\ UNCHANGED <<currentTaskId, websocket, videoSrc, uploadSectionShown,
                   videoSectionShown, videoInfo, analysisResults, env, nPosts,
                   nTasks, terminated, processed>>

\* one tick of the interval of file f: progress += Math.random() * 15; at 100
\* or more: progress = 100, clearInterval, onFileProcessed(file), which sets
\* the 500 ms timer; then updateProgress(progress)
IntervalTick(f, inc) ==
    /\ f \in intervals
    /\ LET progress == simProgress[f] + inc
       IN  IF progress >= 1000
           THEN /\ simProgress' = [simProgress EXCEPT ![f] = 1000]
                /\ intervals' = clearInterval(intervals, f)
                /\ processed' = [processed EXCEPT ![f] = @ + 1]
                /\ timers' = timers \cup {f}
           ELSE /\ simProgress' = [simProgress EXCEPT ![f] = progress]
                /\ UNCHANGED <<intervals, processed, timers>>
    /\ updateProgress(simProgress'[f], "")
    /\ UNCHANGED <<fields, videoSrc, errorShown, errorText, progressShown,
                   uploadSectionShown, videoSectionShown, videoInfo,
                   analysisResults, uploads, analyzes, sockOpen, sockTask,
                   urlFile, revoked, hist>>

\* the setTimeout callback of onFileProcessed: hideProgress(),
\* showVideoPlayer(file), the statements UploadTimer models for the API version
ProcessedTimer(f) == UploadTimer(f)

(***************************************************************************)
(* The specification.                                                      *)
(***************************************************************************)
Next ==
    \/ \E c \in CandidateIds : handleFileSelect(c)
    \/ \E f \in FileIds, t \in TaskIds : UploadSucceeded(f, t)
    \/ \E f \in FileIds, d \in Details : UploadRejected(f, d)
    \/ \E f \in FileIds : UploadFailed(f)
    \/ \E f \in FileIds : UploadTimer(f)
    \/ startAnalysis
    \/ \E s \in SockIds : AnalyzeStarted(s)
    \/ \E s \in SockIds, d \in Details : AnalyzeRejected(s, d)
    \/ \E s \in SockIds : AnalyzeFailed(s)
    \/ \E s \in SockIds, e \in ProgressEvents : OnProgress(s, e.progress, e.message)
    \/ \E s \in SockIds, r \in Summaries : OnComplete(s, r)
    \/ \E s \in SockIds, m \in ErrorMessages : OnError(s, m)
    \/ \E s \in SockIds : OnTransportError(s)
    \/ \E s \in SockIds : OnClose(s)
    \/ resetUpload

Spec == Init /\ [][Next]_vars

\* the upload lifecycle alone: the handlers of selection, of the upload
\* request and its timer, and resetUpload; no analysis is started
NextUpload ==
    \/ \E c \in CandidateIds : handleFileSelect(c)
    \/ \E f \in FileIds, t \in TaskIds : UploadSucceeded(f, t)
    \/ \E f \in FileIds, d \in Details : UploadRejected(f, d)
    \/ \E f \in FileIds : UploadFailed(f)
    \/ \E f \in FileIds : UploadTimer(f)
    \/ resetUpload

SpecUpload == Init /\ [][NextUpload]_vars

\* the upload request of file f is answered, in one of the three ways
UploadAnswered(f) ==
    \/ \E t \in TaskIds : UploadSucceeded(f, t)
    \/ \E d \in Details : UploadRejected(f, d)
    \/ UploadFailed(f)

\* the upload lifecycle with every pending request answered in the end and
\* every timer set by setTimeout firing in the end
SpecUploadFair ==
    /\ Init
    /\ [][NextUpload]_vars
    /\ \A f \in FileIds : WF_vars(UploadAnswered(f)) /\ WF_vars(UploadTimer(f))

\* the simulated-processing variant: accepted selections, the ticks of their
\* intervals and the timers of onFileProcessed
NextSim ==
    \/ \E c \in CandidateIds : processFile(c)
    \/ \E f \in FileIds, inc \in Increments : IntervalTick(f, inc)
    \/ \E f \in FileIds : ProcessedTimer(f)

SpecSim == Init /\ [][NextSim]_vars

\* showing upload results: accepted selections and the 2xx answers to their
\* uploads, over all the metadata
NextFormat ==
    \/ \E c \in CandidateIds : SelectAccepted(c)
    \/ \E f \in FileIds, t \in TaskIds, m \in Metadatas : UploadSucceededWith(f, t, m)

SpecFormat == Init /\ [][NextFormat]_vars

\* starting an analysis: an accepted selection, its upload and timer,
\* startAnalysis and the answers to its request, and resetUpload; the server
\* sends nothing over the channel
NextStart ==
    \/ \E c \in CandidateIds : SelectAccepted(c)
    \/ \E f \in FileIds, t \in TaskIds : UploadSucceeded(f, t)
    \/ \E f \in FileIds : UploadTimer(f)
    \/ startAnalysis
    \/ \E s \in SockIds : AnalyzeStarted(s)
    \/ \E s \in SockIds, d \in Details : AnalyzeRejected(s, d)
    \/ resetUpload

SpecStart == Init /\ [][NextStart]_vars

\* an analysis in progress: selections (accepted or refused), the 2xx upload
\* answer, startAnalysis and its 2xx answer, progress events, and resetUpload
NextChannel ==
    \/ \E c \in CandidateIds : handleFileSelect(c)
    \/ \E f \in FileIds, t \in TaskIds : UploadSucceeded(f, t)
    \/ startAnalysis
    \/ \E s \in SockIds : AnalyzeStarted(s)
    \/ \E s \in SockIds, e \in ProgressEvents : OnProgress(s, e.progress, e.message)
    \/ resetUpload

SpecChannel == Init /\ [][NextChannel]_vars

(***************************************************************************)
(* Claims.                                                                 *)
(***************************************************************************)
NoChannelOpen == \A s \in SockIds : ~sockOpen[s]

\* C1: handleFileSelect of a file larger than maxFileSize shows the size
\* error and issues no request (no POST /upload, nothing else either), in
\* whatever state the editor is.
C1_OversizeRefused ==
    [][\A c \in CandidateIds :
         (Candidates[c].size > maxFileSize /\ handleFileSelect(c))
            => /\ errorShown' /\ errorText' = "TooLarge"
               /\ nPosts' = nPosts
               /\ uploads' = uploads
               /\ analyzes' = analyzes
               /\ currentFile' = currentFile]_vars

\* an oversize file was refused while an upload was outstanding
C1_Witness ==
    errorShown /\ errorText = "TooLarge" /\ uploads # {} /\ nPosts = 1

\* C2: each accepted selection issues exactly one POST /upload: at any time
\* the requests issued are as many as the files accepted, whatever became of
\* the uploads (no retry after a failure).
C2_OnePostPerSelection ==
    /\ nPosts = nSelected
    /\ uploads \subseteq 1..nSelected

\* two files were accepted, the upload of one has failed, and two requests
\* were issued in all
C2_Witness ==
    /\ nSelected = 2 /\ nPosts = 2
    /\ errorShown /\ errorText = "upload failed"
    /\ Cardinality(uploads) = 1

\* C3: once a 2xx upload response carrying task_id is handled, currentTaskId
\* is that task_id, the upload result is what videoInfo shows, the progress
\* bar reads 100 / upload done, and the request is no longer outstanding.
C3_TaskIdStored ==
    [][\A f \in FileIds, t \in TaskIds :
         UploadSucceeded(f, t)
            => /\ currentTaskId' = t
               /\ videoInfo'.task = t
               /\ progressWidth' = 100
               /\ progressText' = ProgressLabel(100, "upload done")
               /\ f \notin uploads']_vars

\* the second upload's response was handled while the first task was held
C3_Witness ==
    /\ currentTaskId = 2 /\ videoInfo.task = 2 /\ nTasks = 2
    /\ progressText = ProgressLabel(100, "upload done")

\* C4: a response to an upload issued for a file that is no longer the
\* current file, or to an analysis start issued for a task that is no longer
\* the current task, changes neither the fields nor the page.
C4_StaleResponseDiscarded ==
    [][/\ \A f \in FileIds, t \in TaskIds :
            (f # currentFile /\ UploadSucceeded(f, t)) => UNCHANGED <<fields, dom>>
       /\ \A f \in FileIds, d \in Details :
            (f # currentFile /\ (UploadRejected(f, d) \/ UploadFailed(f)))
                => UNCHANGED <<fields, dom>>
       /\ \A s \in SockIds, d \in Details :
            (sockTask[s] # currentTaskId
               /\ (AnalyzeStarted(s) \/ AnalyzeRejected(s, d) \/ AnalyzeFailed(s)))
                => UNCHANGED <<fields, dom>>]_vars

\* C5: at most one POST /upload awaits its response at any time.
C5_OneUploadInFlight == Cardinality(uploads) <= 1

\* C6: accepting a new file leaves no earlier task id in currentTaskId and no
\* channel open (one file and one task id at a time holds by construction:
\* each is one field).
C6_NewUploadInvalidates ==
    [][\A c \in CandidateIds :
         SelectAccepted(c) => (currentTaskId' = 0 /\ NoChannelOpen')]_vars

\* C7: a complete or error event of a task for which a complete or error
\* event was already handled changes neither the fields nor the page.
C7_OneTerminalPerTask ==
    [][\A s \in SockIds :
         (/\ sockTask[s] \in terminated
          /\ \/ \E r \in Summaries : OnComplete(s, r)
             \/ \E m \in ErrorMessages : OnError(s, m))
            => UNCHANGED <<fields, dom>>]_vars

\* C8: resetUpload revokes the object URL videoPlayer.src holds, which was
\* not revoked before, and revokes nothing when videoPlayer.src is empty;
\* no object URL is ever revoked twice.
C8_ResetRevokesOnce ==
    /\ [](\A u \in UrlIds :
            /\ revoked[u] <= 1
            /\ (videoSrc = u => revoked[u] = 0 /\ urlFile[u] # 0))
    /\ [][resetUpload =>
            /\ videoSrc' = 0
            /\ revoked' = [u \in UrlIds |->
                             IF u = videoSrc THEN 1 ELSE revoked[u]]]_vars

\* a reset has revoked a URL, and a later reset found none to revoke
C8_Witness ==
    /\ videoSrc = 0 /\ currentFile = 0
    /\ \E u \in UrlIds : revoked[u] = 1
    /\ \E u \in UrlIds : urlFile[u] # 0 /\ revoked[u] = 0

\* C9: an object URL whose file is no longer the current file (its session
\* was ended by resetUpload or by a newer selection) has been revoked exactly
\* once; in particular none exists unrevoked for such a file.
C9_UrlReleased ==
    \A u \in UrlIds :
        (urlFile[u] # 0 /\ urlFile[u] # currentFile) => revoked[u] = 1

\* C10: resetUpload leaves no file, no task id and no open channel, and the
\* editor stays so until a file is accepted.  (The claim also has the
\* analysis summary discarded; this statement asks less.)
Idle == currentFile = 0 /\ currentTaskId = 0 /\ websocket = 0 /\ NoChannelOpen

C10_ResetToIdle ==
    [][/\ resetUpload => Idle'
       /\ (Idle /\ ~(\E c \in CandidateIds : SelectAccepted(c))) => Idle']_vars

\* C11: whatever progress events arrive, the percent on display is an integer
\* between 0 and 100: the bar's width and the NN% label are clamped.
C11_ProgressClamped ==
    progressShown =>
        /\ progressWidth \in 0..100
        /\ progressText.msg = "%" => progressText.pct \in 0..100

\* C12: startAnalysis() while no task id is held shows the no-task error,
\* opens no socket and sends no POST /analyze (and no other request).
C12_NoTaskNoAnalysis ==
    [][(currentTaskId = 0 /\ startAnalysis)
          => /\ errorShown' /\ errorText' = "NoTask"
             /\ UNCHANGED <<websocket, sockOpen, sockTask, analyzes>>
             /\ UNCHANGED <<uploads, nPosts>>]_vars

\* startAnalysis() was refused after a reset had discarded an issued task id
C12_Witness ==
    /\ errorShown /\ errorText = "NoTask"
    /\ currentTaskId = 0 /\ nTasks >= 1
    /\ NoChannelOpen /\ analyzes = {}

\* the extension of a name: the characters after its last dot, lower-cased;
\* a name that holds no dot has none
NameExtension(name) ==
    IF \E i \in 1..Len(name) : name[i] = "." THEN fileExtension(name) ELSE <<>>

ValidationErrors == {"NoFile", "TooLarge", "BadFormat", "NotVideo"}

\* C13: a file whose extension (the part of its name after the last dot, in
\* any letter case) is not one of mp4, mov, avi, mkv, webm is refused with a
\* validation error and is not uploaded; a file whose extension is one of
\* them, in any letter case, is not refused for its format.
C13_ExtensionRule ==
    [][\A c \in CandidateIds :
         (Candidates[c].present /\ handleFileSelect(c))
            => IF NameExtension(Candidates[c].name) \notin supportedFormats
               THEN /\ errorShown' /\ errorText' \in ValidationErrors
                    /\ nPosts' = nPosts /\ uploads' = uploads
                    /\ currentFile' = currentFile
               ELSE ~(errorShown' /\ errorText' = "BadFormat")]_vars

\* the rules of selection a file violates: 1 a file is given, 2 its size is at
\* most maxFileSize, 3 its extension is a supported format, 4 its declared
\* type is a video type
ViolatedRules(f) ==
    IF ~f.present THEN {1}
    ELSE {r \in 2..4 :
            \/ r = 2 /\ f.size > maxFileSize
            \/ r = 3 /\ NameExtension(f.name) \notin supportedFormats
            \/ r = 4 /\ ~startsWithVideo(f.type)}

RuleError == <<"NoFile", "TooLarge", "BadFormat", "NotVideo">>

\* C14: selection checks the rules in the order 1, 2, 3, 4 and stops at the
\* first one violated: the one error shown is that of the earliest violated
\* rule and nothing is uploaded; a file is accepted (stored and uploaded,
\* no error shown) exactly when it violates no rule.
C14_FailFast ==
    [][\A c \in CandidateIds :
         handleFileSelect(c)
            => LET v == ViolatedRules(Candidates[c])
               IN  IF v = {}
                   THEN /\ ~errorShown'
                        /\ nPosts' = nPosts + 1
                        /\ currentFile' # currentFile
                   ELSE /\ errorShown'
                        /\ errorText' = RuleError[CHOOSE r \in v : \A q \in v : r <= q]
                        /\ nPosts' = nPosts
                        /\ currentFile' = currentFile]_vars

AfterReset ==
    /\ videoSrc = 0 /\ websocket = 0
    /\ currentFile = 0 /\ currentTaskId = 0
    /\ ~errorShown /\ ~progressShown
    /\ uploadSectionShown /\ ~videoSectionShown

\* C16: resetUpload is idempotent: a reset leaves the editor in a state where
\* another reset changes nothing at all, so the second of two resets in a
\* row revokes no object URL, closes no socket and leaves every field and
\* element as the first left it.
C16_ResetIdempotent ==
    [][/\ resetUpload => AfterReset'
       /\ ~(AfterReset /\ resetUpload)]_vars

\* a reset has revoked an object URL and closed a socket
C16_Witness ==
    /\ AfterReset
    /\ \E u \in UrlIds : revoked[u] = 1
    /\ \E s \in SockIds : sockTask[s] # 0 /\ ~sockOpen[s]

\* a number below 100 in decimal, without and with a leading zero
Numeral(n) ==
    IF n < 10 THEN <<DigitChars[n + 1]>>
    ELSE <<DigitChars[(n \div 10) + 1], DigitChars[(n % 10) + 1]>>

TwoDigits(n) == <<DigitChars[(n \div 10) + 1], DigitChars[(n % 10) + 1]>>

\* M:SS below an hour, H:MM:SS from an hour on
DurationText(s) ==
    LET H  == s \div 3600
        M  == (s % 3600) \div 60
        SS == s % 60
    IN  IF s < 3600 THEN Numeral(M) \o <<":">> \o TwoDigits(SS)
        ELSE Numeral(H) \o <<":">> \o TwoDigits(M) \o <<":">> \o TwoDigits(SS)

\* C17: the duration an upload result is shown with, whenever one is shown, is M:SS when it is below
\* 3600 seconds and H:MM:SS otherwise, M being floor((s mod 3600)/60) and SS
\* being s mod 60, SS (and MM in the hour form) padded to two digits; for the
\* metadata {duration: 125, file_size: 10485760} the duration shown is "2:05"
\* and the size shown is "10 MB".
C17_Formats ==
    videoInfo.task # 0
        => /\ videoInfo.duration = DurationText(videoInfo.metadata.duration)
           /\ videoInfo.metadata.duration = 125
                 => videoInfo.duration = <<"2", ":", "0", "5">>
           /\ videoInfo.metadata.file_size = 10485760
                 => videoInfo.fileSize = <<"1", "0", " ", "MB">>

\* the README's example is on display
C17_Witness ==
    /\ videoInfo.task # 0
    /\ videoInfo.metadata = [duration |-> 125, file_size |-> 10485760]
    /\ videoInfo.duration = <<"2", ":", "0", "5">>
    /\ videoInfo.fileSize = <<"1", "0", " ", "MB">>

\* C18: handling a complete event stores the result, ends the progress display
\* and closes the channel; handling an error event shows the carried message
\* and closes the channel: in both cases the socket that delivered the event
\* is no longer open afterwards.
C18_TerminalClosesChannel ==
    [][\A s \in SockIds :
         /\ \A r \in Summaries :
              OnComplete(s, r)
                 => /\ analysisResults' = Append(analysisResults, r)
                    /\ ~progressShown'
                    /\ ~sockOpen'[s]
         /\ \A m \in ErrorMessages :
              OnError(s, m)
                 => /\ errorShown' /\ errorText' = m
                    /\ ~sockOpen'[s]]_vars

C20_OneChannelOpen == Cardinality({s \in SockIds : sockOpen[s]}) <= 1

\* C21: a progress event changes the bar's width and the status text and
\* nothing else: the fields (file, task id, socket), the sockets' open flags,
\* the analysis results, the error box, the visibility of the progress bar
\* and of the two sections, and every request and timer stay as they were.
C21_ProgressFrame ==
    [][\A s \in SockIds, e \in ProgressEvents :
         OnProgress(s, e.progress, e.message)
            => /\ progressWidth' = MathRound(e.progress)
               /\ UNCHANGED <<currentFile, currentTaskId, websocket>>
               /\ UNCHANGED <<sockOpen, sockTask, analysisResults, videoInfo>>
               /\ UNCHANGED <<errorShown, errorText, progressShown,
                              uploadSectionShown, videoSectionShown, videoSrc>>
               /\ UNCHANGED <<uploads, analyzes, timers, urlFile, revoked>>]_vars

\* a progress event with a message has been shown while its socket, task and
\* file are held
C21_Witness ==
    /\ progressWidth = 50 /\ progressText.msg = "analyzing"
    /\ currentFile # 0 /\ currentTaskId # 0
    /\ websocket # 0 /\ sockOpen[websocket]

\* C22: a selection that fails validation (no file, oversize, unsupported
\* extension, non-video type) shows its error and changes nothing else: the
\* selected file, the task id, the socket held and every socket's open flag
\* are what they were, and no request or timer is started.
C22_RejectedFrame ==
    [][\A c \in CandidateIds :
         (validateFile(Candidates[c]) # "ok" /\ handleFileSelect(c))
            => /\ errorShown' /\ errorText' = validateFile(Candidates[c])
               /\ UNCHANGED <<currentFile, currentTaskId, websocket>>
               /\ UNCHANGED <<sockOpen, sockTask, analysisResults, videoInfo>>
               /\ UNCHANGED <<progressShown, progressWidth, progressText,
                              uploadSectionShown, videoSectionShown, videoSrc>>
               /\ UNCHANGED <<uploads, analyzes, timers, urlFile, revoked,
                              nPosts>>]_vars

\* a selection was refused while a file, a task id and an open socket are held
C22_Witness ==
    /\ errorShown /\ errorText \in ValidationErrors
    /\ currentFile # 0 /\ currentTaskId # 0
    /\ websocket # 0 /\ sockOpen[websocket]

\* the upload of f is over and has come out: the progress bar is hidden and
\* either the player shows f or an error is shown
UploadOutcome(f) ==
    /\ f \notin uploads /\ f \notin timers
    /\ ~progressShown
    /\ \/ /\ videoSectionShown
          /\ videoSrc # 0 /\ urlFile[videoSrc] = f
          /\ nTasks >= 1
       \/ errorShown

\* C23: when every upload request is answered in the end and every pending
\* timer fires, each accepted file leaves the uploading phase: its request
\* pending leads to the progress bar hidden with either the player showing
\* the file or an error shown, and the 2xx answer that sets the player's timer
\* is the step that stores the file's task id.
C23_UploadEnds ==
    /\ \A f \in FileIds : (f \in uploads) ~> UploadOutcome(f)
    /\ [][\A f \in FileIds :
            (f \in timers' /\ f \notin timers)
               => /\ f \in uploads /\ f \notin uploads'
                  /\ currentTaskId' = nTasks' /\ nTasks' = nTasks + 1]_vars

\* an upload has ended with the task id held and the player shown
C23_Witness ==
    /\ nPosts >= 1 /\ uploads = {} /\ timers = {}
    /\ ~progressShown /\ videoSectionShown /\ ~errorShown
    /\ currentTaskId # 0 /\ videoSrc # 0 /\ urlFile[videoSrc] = currentFile

\* C24: in the simulated-processing variant, each tick of a file's interval
\* displays that file's progress, rounded, which is not below what its tick
\* before displayed and never above 100; onFileProcessed is called for the
\* file exactly at the tick that first brings its progress to 100, once, and
\* no tick of that file fires afterwards.
C24_SimulatedProgress ==
    /\ [][\A f \in FileIds, inc \in Increments :
            IntervalTick(f, inc)
               => /\ progressWidth' = MathRound(simProgress'[f])
                  /\ progressText' = [msg |-> "%", pct |-> progressWidth']
                  /\ progressWidth' >= MathRound(simProgress[f])
                  /\ progressWidth' <= 100
                  /\ simProgress[f] < 1000 /\ processed[f] = 0
                  /\ processed'[f] = (IF simProgress'[f] = 1000 THEN 1 ELSE 0)
                  /\ (f \in intervals') = (simProgress'[f] < 1000)]_vars
    /\ [](\A f \in FileIds : processed[f] <= 1)

\* two files have been processed to 100, each handed to onFileProcessed once
C24_Witness ==
    /\ processed[1] = 1 /\ processed[2] = 1
    /\ simProgress[1] = 1000 /\ simProgress[2] = 1000
    /\ intervals = {} /\ progressWidth = 100

====
